---- MODULE Spec2Model ----
(***************************************************************************)
(* Swarm-Wallpaper: the Surface Session (src/src/state.rs, State) and the  *)
(* Frame Controller (src/src/app.rs, App) as one state machine.            *)
(*                                                                         *)
(* The host (winit) delivers one event at a time; every handler is one     *)
(* atomic action.  Variables are of three kinds: the program's own fields, *)
(* the host's state the handlers act on, and observation variables that    *)
(* only record which calls the handlers made.                              *)
(***************************************************************************)
EXTENDS Integers, Sequences, FiniteSets, TLC

VARIABLES
    \* ---- App (src/src/app.rs:12-17)
    state,            \* Option<State>: <<>> or <<the Session record>>
    animating,        \* bool
    fps_frames,       \* u32 frame tally
    fps_last,         \* Option<Instant>: <<>> or <<a tick>>
    \* ---- host (winit event loop, window, clock)
    now,              \* the monotonic clock, in ticks
    redraw_pending,   \* the window's coalesced request_redraw flag
    exiting,          \* event_loop.exit() has been called
    running,          \* the event loop still dispatches events
    resumed_done,     \* the can-render-now signal has been delivered
    title,            \* window title: <<>> (no label) or <<FPS in tenths>>
    inner_size,       \* the window's inner size: <<>> before the window exists
    \* ---- observation of the calls made by the handlers
    events,           \* number of events handled so far
    event,            \* the most recent event handled
    calls,            \* the calls made by the most recent handler, in order
    exit_calls,       \* event_loop.exit() calls
    poll_calls,       \* device.poll(Wait) calls
    redraw_requests,  \* window.request_redraw() calls
    creations,        \* State::new calls
    render_calls,     \* State::render calls on the current Session
    failed,           \* render calls that returned Err
    presented,        \* render calls that returned Ok (frame presented)
    outcome,          \* result of the most recent render call
    render_wrote,     \* the uniform block written by the most recent render
    resize_calls,     \* State::resize calls
    last_resize,      \* arguments of the most recent resize call
    armed_size,       \* arguments of the most recent resize call with w,h >= 1
    configures,       \* surface.configure calls
    close_handled,    \* a close-requested event has been handled
    oom_handled,      \* an OutOfMemory render result has been handled
    script,           \* position in the scripted outcome sequence (Script)
    prior_calls,      \* render calls (mod 2^32) made before the run observed
    samples,          \* throughput samples emitted (title updates)
    last_sample       \* the tally and elapsed ticks of the most recent sample

vars == <<state, animating, fps_frames, fps_last, now, redraw_pending, exiting,
          running, resumed_done, title, events, calls, exit_calls, poll_calls,
          redraw_requests, creations, render_calls, failed, presented, outcome,
          render_wrote, resize_calls, last_resize, armed_size, configures,
          close_handled, script, prior_calls, samples, last_sample,
          inner_size, oom_handled, event>>

----------------------------------------------------------------------------
(* Bounds of the model. *)

\* events handled in one run
MaxEvents == 5
\* the clock stops advancing here
MaxTime == 4
\* resolution of the model's clock
TicksPerSecond == 2

----------------------------------------------------------------------------
(* u32 arithmetic.  A u32 is kept as two 16-bit halves so that values up   *)
(* to 2^32 - 1 and the wraparound are represented exactly.                 *)

Half == 65536

U32Zero == [hi |-> 0, lo |-> 0]

U32Max == [hi |-> Half - 1, lo |-> Half - 1]

\* u32::saturating_add(1)
SaturatingAdd1(x) ==
    IF x = U32Max THEN x
    ELSE IF x.lo = Half - 1 THEN [hi |-> x.hi + 1, lo |-> 0]
    ELSE [hi |-> x.hi, lo |-> x.lo + 1]

\* u32::wrapping_add(1)
WrappingAdd1(x) ==
    IF x.lo = Half - 1
    THEN [hi |-> (x.hi + 1) % Half, lo |-> 0]
    ELSE [hi |-> x.hi, lo |-> x.lo + 1]

\* (x + n) mod 2^32 for a small natural n, by carry arithmetic
U32Plus(x, n) ==
    LET s == x.lo + n
    IN  [hi |-> (x.hi + (s \div Half)) % Half, lo |-> s % Half]

(* `as f32` on a u32: exact up to 2^24, above that rounded to the nearest  *)
(* representable value (24-bit significand, ties to even).                 *)
F32Exact == 16777216

RECURSIVE Ulp(_)
Ulp(n) == IF n < 2 * F32Exact THEN 2 ELSE 2 * Ulp(n \div 2)

AsF32(n) ==
    IF n <= F32Exact THEN n
    ELSE LET u == Ulp(n)
             q == n \div u
             r == n % u
         IN  IF 2 * r < u THEN q * u
             ELSE IF 2 * r > u THEN (q + 1) * u
             ELSE IF q % 2 = 0 THEN q * u ELSE (q + 1) * u

Max(a, b) == IF a >= b THEN a ELSE b

(* Option<T>: None is the empty sequence, Some(x) the one-element one. *)
None == <<>>

Some(x) == <<x>>

----------------------------------------------------------------------------
(* Inputs. *)

\* window.inner_size() at creation
WindowSizes == {<<800, 600>>, <<0, 0>>, <<0, 600>>}

\* sizes carried by resized events
ResizedSizes == {<<0, 0>>, <<0, 600>>, <<800, 0>>, <<1024, 768>>}

\* non-zero (w, h) arguments of resize, one beyond the exact range of f32
ResizeArgs == {<<1, 1>>, <<800, 600>>, <<1024, 768>>, <<F32Exact + 1, 3>>}

\* results of surface.get_current_texture() as classified by the Controller
Outcomes == {"Ok", "Lost", "Outdated", "OutOfMemory", "Timeout", "Other"}

\* the scripted outcome sequence of the end-to-end scenario
Script == <<"Lost", "Ok", "OutOfMemory">>

\* frame counters of a Session that has been running for a long time
LateFrames == {[hi |-> Half - 1, lo |-> Half - 2], U32Max}

\* the window size of that Session
LateSize == <<800, 600>>

----------------------------------------------------------------------------
(* Surface Session: src/src/state.rs *)

Params(w, h, frame) == [size |-> <<AsF32(w), AsF32(h)>>, frame |-> frame]

\* new without the floor of each dimension at 1
new_unfloored(size) ==
    [config |-> [width |-> size[1], height |-> size[2]],
     params_buf |-> Params(size[1], size[2], U32Zero),
     frame |-> U32Zero]

\* State::new: the surface configuration and the initial uniform block
new(size) ==
    LET w == Max(size[1], 1)
        h == Max(size[2], 1)
    IN  [config |-> [width |-> w, height |-> h],
         params_buf |-> Params(w, h, U32Zero),
         frame |-> U32Zero]

\* resize that also counts as a frame
resize_counts_frame(s, w, h) ==
    IF w = 0 \/ h = 0 THEN s
    ELSE LET f == WrappingAdd1(s.frame)
         IN  [s EXCEPT !.config = [width |-> w, height |-> h],
                       !.params_buf = Params(w, h, f),
                       !.frame = f]

\* resize with the zero test written as a conjunction
resize_and(s, w, h) ==
    IF w = 0 /\ h = 0 THEN s
    ELSE [s EXCEPT !.config = [width |-> w, height |-> h],
                   !.params_buf = Params(w, h, s.frame)]

\* resize that reconfigures but does not rewrite the uniform block
resize_no_write(s, w, h) ==
    IF w = 0 \/ h = 0 THEN s
    ELSE [s EXCEPT !.config = [width |-> w, height |-> h]]

\* resize that rewrites the uniform block but keeps the old configuration
resize_uniform_only(s, w, h) ==
    IF w = 0 \/ h = 0 THEN s
    ELSE [s EXCEPT !.params_buf = Params(w, h, s.frame)]

\* State::resize
resize(s, w, h) ==
    IF w = 0 \/ h = 0 THEN s
    ELSE [s EXCEPT !.config = [width |-> w, height |-> h],
                   !.params_buf = Params(w, h, s.frame)]

\* whether resize(w, h) reaches surface.configure
Reconfigures(w, h) == ~(w = 0 \/ h = 0)

\* render with a saturating counter
render_saturating(s, o) ==
    LET f == SaturatingAdd1(s.frame)
    IN  [s EXCEPT !.frame = f,
                  !.params_buf = Params(s.config.width, s.config.height, f)]

\* render that counts the frame only after the image was acquired
render_count_presented(s, o) ==
    IF o = "Ok"
    THEN LET f == WrappingAdd1(s.frame)
         IN  [s EXCEPT !.frame = f,
                       !.params_buf = Params(s.config.width, s.config.height, f)]
    ELSE s

\* State::render returning o: the counter and the uniform block are written
\* before get_current_texture() can fail, so the Session is left the same
\* whatever the result
render(s, o) ==
    LET f == WrappingAdd1(s.frame)
    IN  [s EXCEPT !.frame = f,
                  !.params_buf = Params(s.config.width, s.config.height, f)]

----------------------------------------------------------------------------
(* Frame Controller: src/src/app.rs *)

Inactive == state = None

Animating == state # None /\ animating

Stopped == exit_calls > 0

\* "{:.1}" of tally / elapsed seconds, as tenths of a frame per second
FpsTenths(tally, dt) == (20 * tally * TicksPerSecond + dt) \div (2 * dt)

\* the scripted scenario: only redraw events, outcomes following Script
ScriptOnRedraw(o) ==
    IF script \in 0..(Len(Script) - 1) /\ o = Script[script + 1] THEN script + 1
    ELSE IF script >= Len(Script) THEN Len(Script) + 1
    ELSE -1

ScriptOnClose == IF script >= Len(Script) THEN Len(Script) + 1 ELSE -1

Handled(e) == events' = events + 1 /\ event' = e

Init ==
    /\ state = None
    /\ animating = FALSE
    /\ fps_frames = 0
    /\ fps_last = None
    /\ now = 0
    /\ redraw_pending = FALSE
    /\ exiting = FALSE
    /\ running = TRUE
    /\ resumed_done = FALSE
    /\ title = None
    /\ events = 0
    /\ calls = <<>>
    /\ exit_calls = 0
    /\ poll_calls = 0
    /\ redraw_requests = 0
    /\ creations = 0
    /\ render_calls = 0
    /\ failed = 0
    /\ presented = 0
    /\ outcome = "None"
    /\ render_wrote = None
    /\ resize_calls = 0
    /\ last_resize = None
    /\ armed_size = None
    /\ configures = 0
    /\ close_handled = FALSE
    /\ script = -1
    /\ prior_calls = U32Zero
    /\ samples = 0
    /\ last_sample = None
    /\ inner_size = None
    /\ oom_handled = FALSE
    /\ event = "none"

\* a Controller that has been animating for LateFrames render calls
InitLate ==
    /\ \E f \in LateFrames :
          /\ state = Some([new(LateSize) EXCEPT
                        !.frame = f,
                        !.params_buf = Params(new(LateSize).config.width,
                                              new(LateSize).config.height, f)])
          /\ prior_calls = f
    /\ animating = TRUE
    /\ fps_frames = 0
    /\ fps_last = Some(0)
    /\ now = 0
    /\ redraw_pending = TRUE
    /\ exiting = FALSE
    /\ running = TRUE
    /\ resumed_done = TRUE
    /\ title = None
    /\ events = 0
    /\ calls = <<>>
    /\ exit_calls = 0
    /\ poll_calls = 0
    /\ redraw_requests = 0
    /\ creations = 1
    /\ render_calls = 0
    /\ failed = 0
    /\ presented = 0
    /\ outcome = "None"
    /\ render_wrote = None
    /\ resize_calls = 0
    /\ last_resize = None
    /\ armed_size = None
    /\ configures = 0
    /\ close_handled = FALSE
    /\ script = -1
    /\ samples = 0
    /\ last_sample = None
    /\ inner_size = Some(LateSize)
    /\ oom_handled = FALSE
    /\ event = "none"

\* ApplicationHandler::resumed: a window is created and its Session with it
Activate ==
    /\ running /\ events < MaxEvents
    /\ \E size \in WindowSizes :
          /\ inner_size' = Some(size)
          /\ state' = Some(new(size))
    /\ animating' = TRUE
    /\ fps_frames' = 0
    /\ fps_last' = Some(now)
    /\ redraw_pending' = TRUE
    /\ redraw_requests' = redraw_requests + 2
    /\ resumed_done' = TRUE
    /\ creations' = creations + 1
    /\ configures' = configures + 1
    /\ render_calls' = 0
    /\ failed' = 0
    /\ presented' = 0
    /\ prior_calls' = U32Zero
    /\ script' = IF resumed_done THEN -1 ELSE 0
    /\ calls' = <<"new", "request_redraw", "request_redraw">>
    /\ Handled("can-render-now")
    /\ UNCHANGED <<now, exiting, running, title, exit_calls, poll_calls, outcome,
                   render_wrote, resize_calls, last_resize, armed_size,
                   close_handled, samples, last_sample, oom_handled>>

\* the host's can-render-now signal at startup
resumed == ~resumed_done /\ Activate

\* the signal again, on a host that suspends and resumes the application
ResumedAgain == resumed_done /\ ~exiting /\ Activate

\* the CloseRequested arm with a drain that does not depend on a Session
CloseRequestedArmDrains ==
    /\ running /\ events < MaxEvents
    /\ animating' = FALSE
    /\ poll_calls' = poll_calls + 1
    /\ exiting' = TRUE
    /\ exit_calls' = exit_calls + 1
    /\ close_handled' = TRUE
    /\ script' = ScriptOnClose
    /\ calls' = <<"poll", "exit">>
    /\ Handled("close-requested")
    /\ UNCHANGED <<state, fps_frames, fps_last, now, redraw_pending, running,
                   resumed_done, title, redraw_requests, creations, render_calls,
                   failed, presented, outcome, render_wrote, resize_calls,
                   last_resize, armed_size, configures, prior_calls, samples,
                   last_sample, inner_size, oom_handled>>

\* window_event, the WindowEvent::CloseRequested arm
CloseRequestedArm ==
    /\ running /\ events < MaxEvents
    /\ animating' = FALSE
    /\ poll_calls' = IF state # None THEN poll_calls + 1 ELSE poll_calls
    /\ exiting' = TRUE
    /\ exit_calls' = exit_calls + 1
    /\ close_handled' = TRUE
    /\ script' = ScriptOnClose
    /\ calls' = IF state # None THEN <<"poll", "exit">> ELSE <<"exit">>
    /\ Handled("close-requested")
    /\ UNCHANGED <<state, fps_frames, fps_last, now, redraw_pending, running,
                   resumed_done, title, redraw_requests, creations, render_calls,
                   failed, presented, outcome, render_wrote, resize_calls,
                   last_resize, armed_size, configures, prior_calls, samples,
                   last_sample, inner_size, oom_handled>>

\* the host delivers close-requested to the window resumed created
CloseRequested == resumed_done /\ CloseRequestedArm

\* the Resized arm that returns early, without a redraw, on a zero size
ResizedSkipsZero ==
    /\ running /\ resumed_done /\ events < MaxEvents
    /\ \E size \in ResizedSizes :
          /\ inner_size' = Some(size)
          /\ IF state # None /\ Reconfigures(size[1], size[2])
             THEN /\ state' = Some(resize(state[1], size[1], size[2]))
                  /\ resize_calls' = resize_calls + 1
                  /\ last_resize' = Some(size)
                  /\ armed_size' = Some(size)
                  /\ configures' = configures + 1
                  /\ redraw_pending' = TRUE
                  /\ redraw_requests' = redraw_requests + 1
                  /\ calls' = <<"resize", "request_redraw">>
             ELSE /\ calls' = <<>>
                  /\ UNCHANGED <<state, resize_calls, last_resize, armed_size,
                                 configures, redraw_pending, redraw_requests>>
    /\ script' = -1
    /\ Handled("resized")
    /\ UNCHANGED <<animating, fps_frames, fps_last, now, exiting, running,
                   resumed_done, title, exit_calls, poll_calls, creations,
                   render_calls, failed, presented, outcome, render_wrote,
                   close_handled, prior_calls, samples, last_sample,
                   oom_handled>>

\* window_event, the WindowEvent::Resized arm
ResizedArm ==
    /\ running /\ events < MaxEvents
    /\ \E size \in ResizedSizes :
          /\ inner_size' = Some(size)
          /\ IF state # None
             THEN /\ state' = Some(resize(state[1], size[1], size[2]))
                  /\ resize_calls' = resize_calls + 1
                  /\ last_resize' = Some(size)
                  /\ armed_size' = IF Reconfigures(size[1], size[2])
                                   THEN Some(size) ELSE armed_size
                  /\ configures' = IF Reconfigures(size[1], size[2])
                                   THEN configures + 1 ELSE configures
                  /\ redraw_pending' = TRUE
                  /\ redraw_requests' = redraw_requests + 1
                  /\ calls' = <<"resize", "request_redraw">>
             ELSE /\ calls' = <<>>
                  /\ UNCHANGED <<state, resize_calls, last_resize, armed_size,
                                 configures, redraw_pending, redraw_requests>>
    /\ script' = -1
    /\ Handled("resized")
    /\ UNCHANGED <<animating, fps_frames, fps_last, now, exiting, running,
                   resumed_done, title, exit_calls, poll_calls, creations,
                   render_calls, failed, presented, outcome, render_wrote,
                   close_handled, prior_calls, samples, last_sample,
                   oom_handled>>

\* the host delivers resized to the window resumed created
Resized == resumed_done /\ ResizedArm

\* the Ok arm that emits the sample but keeps the tally
OnOkNoReset(s) ==
    /\ state' = Some(s)
    /\ LET tally == fps_frames + 1
           dt == now - fps_last[1]
       IN  IF fps_last # None /\ dt >= TicksPerSecond
           THEN /\ title' = Some(FpsTenths(tally, dt))
                /\ fps_frames' = tally
                /\ fps_last' = Some(now)
                /\ samples' = samples + 1
                /\ last_sample' = Some([tally |-> tally, dt |-> dt,
                                        presented |-> presented + 1])
           ELSE /\ fps_frames' = tally
                /\ UNCHANGED <<title, fps_last, samples, last_sample>>
    /\ redraw_pending' = animating
    /\ redraw_requests' = IF animating THEN redraw_requests + 1 ELSE redraw_requests
    /\ presented' = presented + 1
    /\ calls' = IF animating THEN <<"render", "request_redraw">> ELSE <<"render">>
    /\ UNCHANGED <<animating, exiting, exit_calls, poll_calls, failed,
                   resize_calls, last_resize, armed_size, configures>>

\* the Ok arm that does not request the next redraw
OnOkNoRearm(s) ==
    /\ state' = Some(s)
    /\ LET tally == fps_frames + 1
           dt == now - fps_last[1]
       IN  IF fps_last # None /\ dt >= TicksPerSecond
           THEN /\ title' = Some(FpsTenths(tally, dt))
                /\ fps_frames' = 0
                /\ fps_last' = Some(now)
                /\ samples' = samples + 1
                /\ last_sample' = Some([tally |-> tally, dt |-> dt,
                                        presented |-> presented + 1])
           ELSE /\ fps_frames' = tally
                /\ UNCHANGED <<title, fps_last, samples, last_sample>>
    /\ redraw_pending' = FALSE
    /\ presented' = presented + 1
    /\ calls' = <<"render">>
    /\ UNCHANGED <<animating, exiting, exit_calls, poll_calls, failed,
                   resize_calls, last_resize, armed_size, configures,
                   redraw_requests>>

\* the Ok(()) arm: tally, throughput sample, re-arm
OnOk(s) ==
    /\ state' = Some(s)
    /\ LET tally == fps_frames + 1
           dt == now - fps_last[1]
       IN  IF fps_last # None /\ dt >= TicksPerSecond
           THEN /\ title' = Some(FpsTenths(tally, dt))
                /\ fps_frames' = 0
                /\ fps_last' = Some(now)
                /\ samples' = samples + 1
                /\ last_sample' = Some([tally |-> tally, dt |-> dt,
                                        presented |-> presented + 1])
           ELSE /\ fps_frames' = tally
                /\ UNCHANGED <<title, fps_last, samples, last_sample>>
    /\ redraw_pending' = animating
    /\ redraw_requests' = IF animating THEN redraw_requests + 1 ELSE redraw_requests
    /\ presented' = presented + 1
    /\ calls' = IF animating THEN <<"render", "request_redraw">> ELSE <<"render">>
    /\ UNCHANGED <<animating, exiting, exit_calls, poll_calls, failed,
                   resize_calls, last_resize, armed_size, configures>>

\* the Lost | Outdated arm without the reconfiguration
OnLostOrOutdatedNoResize(s) ==
    /\ state' = Some(s)
    /\ redraw_pending' = animating
    /\ redraw_requests' = IF animating THEN redraw_requests + 1 ELSE redraw_requests
    /\ failed' = failed + 1
    /\ calls' = IF animating THEN <<"render", "request_redraw">> ELSE <<"render">>
    /\ UNCHANGED <<animating, fps_frames, fps_last, title, samples, last_sample,
                   exiting, exit_calls, poll_calls, presented, resize_calls,
                   last_resize, armed_size, configures>>

\* the Err(Lost | Outdated) arm: reconfigure at the same size, re-arm
OnLostOrOutdated(s) ==
    /\ LET w == s.config.width
           h == s.config.height
       IN  /\ state' = Some(resize(s, w, h))
           /\ resize_calls' = resize_calls + 1
           /\ last_resize' = Some(<<w, h>>)
           /\ armed_size' = IF Reconfigures(w, h) THEN Some(<<w, h>>) ELSE armed_size
           /\ configures' = IF Reconfigures(w, h) THEN configures + 1 ELSE configures
    /\ redraw_pending' = animating
    /\ redraw_requests' = IF animating THEN redraw_requests + 1 ELSE redraw_requests
    /\ failed' = failed + 1
    /\ calls' = IF animating THEN <<"render", "resize", "request_redraw">>
                ELSE <<"render", "resize">>
    /\ UNCHANGED <<animating, fps_frames, fps_last, title, samples, last_sample,
                   exiting, exit_calls, poll_calls, presented>>

\* the OutOfMemory arm that keeps animating set
OnOutOfMemoryKeepAnimating(s) ==
    /\ state' = Some(s)
    /\ poll_calls' = poll_calls + 1
    /\ exiting' = TRUE
    /\ exit_calls' = exit_calls + 1
    /\ redraw_pending' = FALSE
    /\ failed' = failed + 1
    /\ calls' = <<"render", "poll", "exit">>
    /\ UNCHANGED <<animating, fps_frames, fps_last, title, samples, last_sample,
                   redraw_requests, presented, resize_calls, last_resize,
                   armed_size, configures>>

\* the OutOfMemory arm that requests exit without draining the device
OnOutOfMemoryNoDrain(s) ==
    /\ state' = Some(s)
    /\ animating' = FALSE
    /\ exiting' = TRUE
    /\ exit_calls' = exit_calls + 1
    /\ redraw_pending' = FALSE
    /\ failed' = failed + 1
    /\ calls' = <<"render", "exit">>
    /\ UNCHANGED <<fps_frames, fps_last, title, samples, last_sample,
                   redraw_requests, presented, resize_calls, last_resize,
                   armed_size, configures, poll_calls>>

\* the Err(OutOfMemory) arm: stop, drain, exit
OnOutOfMemory(s) ==
    /\ state' = Some(s)
    /\ animating' = FALSE
    /\ poll_calls' = poll_calls + 1
    /\ exiting' = TRUE
    /\ exit_calls' = exit_calls + 1
    /\ redraw_pending' = FALSE
    /\ failed' = failed + 1
    /\ calls' = <<"render", "poll", "exit">>
    /\ UNCHANGED <<fps_frames, fps_last, title, samples, last_sample,
                   redraw_requests, presented, resize_calls, last_resize,
                   armed_size, configures>>

\* the Timeout and other arms with a redraw requested for the retry
OnTimeoutOrOtherRearm(s) ==
    /\ state' = Some(s)
    /\ redraw_pending' = animating
    /\ redraw_requests' = IF animating THEN redraw_requests + 1 ELSE redraw_requests
    /\ failed' = failed + 1
    /\ calls' = IF animating THEN <<"render", "request_redraw">> ELSE <<"render">>
    /\ UNCHANGED <<animating, fps_frames, fps_last, title, samples, last_sample,
                   exiting, exit_calls, poll_calls, presented,
                   resize_calls, last_resize, armed_size, configures>>

\* the Err(Timeout) and Err(e) arms: nothing
OnTimeoutOrOther(s) ==
    /\ state' = Some(s)
    /\ redraw_pending' = FALSE
    /\ failed' = failed + 1
    /\ calls' = <<"render">>
    /\ UNCHANGED <<animating, fps_frames, fps_last, title, samples, last_sample,
                   exiting, exit_calls, poll_calls, redraw_requests, presented,
                   resize_calls, last_resize, armed_size, configures>>

\* window_event, WindowEvent::RedrawRequested, for a render result o
Redraw(o) ==
    /\ Handled("redraw-requested")
    /\ IF state # None
       THEN LET s == render(state[1], o)
            IN  /\ render_calls' = render_calls + 1
                /\ outcome' = o
                /\ render_wrote' = Some(s.params_buf)
                /\ script' = ScriptOnRedraw(o)
                /\ CASE o = "Ok" -> OnOk(s)
                     [] o \in {"Lost", "Outdated"} -> OnLostOrOutdated(s)
                     [] o = "OutOfMemory" -> OnOutOfMemory(s)
                     [] OTHER -> OnTimeoutOrOther(s)
       ELSE /\ redraw_pending' = FALSE
            /\ calls' = <<>>
            /\ UNCHANGED <<state, animating, fps_frames, fps_last, title, samples,
                           last_sample, exiting, exit_calls, poll_calls,
                           redraw_requests, render_calls, failed, presented,
                           outcome, render_wrote, resize_calls, last_resize,
                           armed_size, configures, script>>
    /\ oom_handled' = (oom_handled \/ (state # None /\ o = "OutOfMemory"))
    /\ UNCHANGED <<now, running, resumed_done, creations, close_handled,
                   prior_calls, inner_size>>

\* the host delivers redraw-requested: one the Controller asked for, or one
\* of its own (the window was exposed)
RedrawRequested ==
    /\ running /\ resumed_done /\ events < MaxEvents
    /\ \E o \in Outcomes : Redraw(o)

\* the host delivers only the redraws the Controller has requested
RequestedRedraw ==
    /\ running /\ resumed_done /\ events < MaxEvents
    /\ redraw_pending
    /\ \E o \in Outcomes : Redraw(o)

\* window events handled before can-render-now, while there is no Session
EarlyCloseRequested == ~resumed_done /\ CloseRequestedArm

EarlyResized == ~resumed_done /\ ResizedArm

EarlyRedrawRequested ==
    /\ running /\ ~resumed_done /\ events < MaxEvents
    /\ \E o \in Outcomes : Redraw(o)

\* the clock advances
Tick ==
    /\ running /\ now < MaxTime
    /\ now' = now + 1
    /\ UNCHANGED <<state, animating, fps_frames, fps_last, redraw_pending,
                   exiting, running, resumed_done, title, events, calls,
                   exit_calls, poll_calls, redraw_requests, creations,
                   render_calls, failed, presented, outcome, render_wrote,
                   resize_calls, last_resize, armed_size, configures,
                   close_handled, script, prior_calls, samples, last_sample,
                   inner_size, oom_handled, event>>

\* run_app returns: the loop sees the exit flag at the end of an iteration
LoopExit ==
    /\ running /\ exiting
    /\ running' = FALSE
    /\ UNCHANGED <<state, animating, fps_frames, fps_last, now, redraw_pending,
                   exiting, resumed_done, title, events, calls, exit_calls,
                   poll_calls, redraw_requests, creations, render_calls, failed,
                   presented, outcome, render_wrote, resize_calls, last_resize,
                   armed_size, configures, close_handled, script, prior_calls,
                   samples, last_sample, inner_size, oom_handled, event>>

Next ==
    \/ resumed
    \/ CloseRequested
    \/ Resized
    \/ RedrawRequested
    \/ Tick
    \/ LoopExit

Spec == Init /\ [][Next]_vars

\* the Controller observed from construction, or late in a long run
InitAny == Init \/ InitLate

SpecAny == InitAny /\ [][Next]_vars

NextSelf ==
    \/ resumed
    \/ CloseRequested
    \/ Resized
    \/ RequestedRedraw
    \/ Tick
    \/ LoopExit

NextResume ==
    \/ resumed
    \/ ResumedAgain
    \/ CloseRequested
    \/ Resized
    \/ RedrawRequested
    \/ Tick
    \/ LoopExit

\* a host that may deliver the can-render-now signal more than once
SpecResume == Init /\ [][NextResume]_vars

NextEarly ==
    \/ resumed
    \/ EarlyCloseRequested
    \/ EarlyResized
    \/ EarlyRedrawRequested
    \/ CloseRequested
    \/ Resized
    \/ RedrawRequested
    \/ Tick
    \/ LoopExit

\* window events may reach the handler before the can-render-now signal
SpecEarly == Init /\ [][NextEarly]_vars

\* the host delivers exactly the redraws requested, and delivers each of them
SpecSelf == Init /\ [][NextSelf]_vars /\ WF_vars(RequestedRedraw) /\ WF_vars(resumed)

----------------------------------------------------------------------------
(* Properties. *)

\* the step is a render call / a resize call
RenderStep == render_calls' = render_calls + 1

ResizeStep == resize_calls' = resize_calls + 1

ZeroSize(size) == size[1] = 0 \/ size[2] = 0

\* the uniform block's frame_index and size, and the configured size
FrameIndex == state[1].params_buf.frame

UniformSize == state[1].params_buf.size

ConfiguredSize == <<state[1].config.width, state[1].config.height>>

\* C1: once a close-requested event has been handled, no later event makes
\* the Controller call render or resize, and exit is requested exactly once
\* over the whole run.
C1_NoSessionCallsAfterClose ==
    [][close_handled =>
          /\ render_calls' = render_calls
          /\ resize_calls' = resize_calls
          /\ exit_calls' = 1]_vars

\* C2: Stopped is terminal: once exit has been requested no handler calls
\* request_redraw, no redraw-requested event makes render run, and animating
\* stays false.
C2_StoppedIsTerminal ==
    [][Stopped =>
          /\ redraw_requests' = redraw_requests
          /\ render_calls' = render_calls
          /\ ~animating']_vars

\* C3: when the render calls after activation return Lost, then Ok, then
\* OutOfMemory (and nothing but redraw events is handled), the Controller
\* has, after Lost: called resize once, with the configured size, and
\* requested one redraw (the third, after the two of resumed); after Ok:
\* presented one frame and requested one more redraw; after OutOfMemory:
\* animating = false, exit requested exactly once, still one resize call,
\* and no redraw requested then or in any later redraw or close handler.
C3_LostOkOutOfMemory ==
    /\ script = 1 =>
          /\ calls = <<"render", "resize", "request_redraw">>
          /\ resize_calls = 1 /\ last_resize = Some(ConfiguredSize)
          /\ redraw_requests = 3 /\ redraw_pending
          /\ animating /\ exit_calls = 0
    /\ script = 2 =>
          /\ calls = <<"render", "request_redraw">>
          /\ presented = 1 /\ resize_calls = 1
          /\ redraw_requests = 4 /\ redraw_pending
          /\ animating /\ exit_calls = 0
    /\ script = 3 =>
          /\ calls = <<"render", "poll", "exit">>
          /\ ~animating /\ exit_calls = 1
          /\ resize_calls = 1 /\ presented = 1
          /\ redraw_requests = 4 /\ ~redraw_pending
    /\ script = 4 =>
          /\ ~animating /\ exit_calls >= 1
          /\ redraw_requests = 4 /\ ~redraw_pending

C3_Witness == script = 3 /\ outcome = "OutOfMemory" /\ render_calls = 3

\* C4: when the host delivers exactly the redraws the Controller requested,
\* a render call that returned Timeout while Animating is followed by another
\* render call (unless the Controller stops or the run's event budget ends).
C4_TimeoutIsRetried ==
    \A n \in 0..(MaxEvents + 1) :
        (Animating /\ outcome = "Timeout" /\ render_calls = n)
            ~> (render_calls > n \/ ~Animating \/ ~running \/ events >= MaxEvents)

\* C5: a resize call with a zero width or height leaves the Session (its
\* configured size, uniform block and frame index) as it was and does not
\* reconfigure the surface.
C5_ZeroResizeIsNoOp ==
    [][(ResizeStep /\ ZeroSize(last_resize'[1])) =>
          /\ state' = state
          /\ configures' = configures]_vars

C5_Witness ==
    /\ state # None /\ resize_calls > 0 /\ last_resize # None
    /\ last_resize[1] = <<0, 600>>
    /\ ConfiguredSize = <<800, 600>>

\* C6: a successful render call leaves the uniform block's frame_index at its
\* old value plus one modulo 2^32: 2^32 - 1 is followed by 0.
C6_FrameIndexIncrements ==
    [][(RenderStep /\ outcome' = "Ok") =>
          state'[1].params_buf.frame = U32Plus(FrameIndex, 1)]_vars

C6_Witness ==
    /\ state # None /\ outcome = "Ok"
    /\ prior_calls = U32Max /\ render_calls = 1
    /\ FrameIndex = U32Zero

\* C7 as claimed: the frame index equals the number of frames presented
\* since the Session was created.
C7_FrameCountsPresented ==
    state # None => state[1].frame = U32Plus(U32Zero, presented)

\* C7 as amended: the frame index equals the number of frames presented plus
\* the number of render calls that failed at image acquisition.
C7_FrameCountsPresentedAndFailed ==
    state # None => state[1].frame = U32Plus(U32Zero, presented + failed)

C7_Witness ==
    /\ state # None /\ presented = 1 /\ failed = 2
    /\ outcome \in {"Timeout", "Lost"}

\* C8: the uniform block's frame_index equals the number of render calls made
\* on the Session since its creation, whatever they returned, modulo 2^32;
\* resize calls leave it alone.
C8_FrameIndexCountsRenderCalls ==
    state # None => FrameIndex = U32Plus(prior_calls, render_calls)

C8_Witness ==
    /\ state # None /\ prior_calls = U32Max
    /\ render_calls = 3 /\ failed = 2 /\ resize_calls > 0
    /\ FrameIndex = [hi |-> 0, lo |-> 2]

\* C9: the uniform block's size field equals the configured surface size.
C9_UniformSizeIsConfiguredSize ==
    state # None => UniformSize = ConfiguredSize

C9_Witness ==
    /\ state # None /\ failed > 0
    /\ last_resize # None /\ ZeroSize(last_resize[1])
    /\ armed_size = Some(<<1024, 768>>)
    /\ UniformSize = <<1024, 768>>

\* C10: a render call writes into the uniform block the size of the most
\* recent resize call whose width and height were both at least 1.
C10_RenderSeesResizedSize ==
    [][(RenderStep /\ armed_size # None) =>
          render_wrote'[1].size = armed_size[1]]_vars

C10_Witness ==
    /\ render_wrote # None /\ calls # <<>> /\ calls[1] = "render"
    /\ armed_size = Some(<<1024, 768>>)
    /\ last_resize # None /\ ZeroSize(last_resize[1])
    /\ render_wrote[1].size = <<1024, 768>>

\* C11: animating is true exactly when the Session exists (can-render-now
\* was handled) and neither a close-requested event nor an OutOfMemory render
\* result has been handled; it is false before the Session exists.
C11_AnimatingIffOpenAndNotStopped ==
    animating <=> (state # None /\ ~close_handled /\ ~oom_handled)

C11_Witness ==
    /\ state # None /\ ~animating /\ oom_handled /\ ~close_handled
    /\ presented > 0

\* C12: on both shutdown paths (close-requested with a Session, and an
\* OutOfMemory render result) the handler leaves animating false and waits
\* for the device (poll) before it requests exit: every exit request made
\* with a Session present comes right after a poll in the same handler.
C12_DrainBeforeExit ==
    [][(exit_calls' # exit_calls /\ state # None) =>
          /\ exit_calls' = exit_calls + 1
          /\ poll_calls' = poll_calls + 1
          /\ ~animating'
          /\ Len(calls') >= 2
          /\ SubSeq(calls', Len(calls') - 1, Len(calls')) = <<"poll", "exit">>
          /\ \A i \in 1..(Len(calls') - 2) : calls'[i] \notin {"poll", "exit"}]_vars

C12_Witness ==
    /\ close_handled /\ oom_handled /\ exit_calls = 2 /\ poll_calls = 2
    /\ calls = <<"poll", "exit">>

\* the step handles an event of kind e
Handles(e) == events' = events + 1 /\ event' = e

\* C13: a resized(w, h) event handled while Animating calls resize(w, h) and
\* then requests a redraw; with a zero dimension the configured size and the
\* uniform size keep their values and the redraw is still requested.
C13_ResizedForwardsAndRedraws ==
    [][(Handles("resized") /\ Animating) =>
          /\ calls' = <<"resize", "request_redraw">>
          /\ resize_calls' = resize_calls + 1
          /\ last_resize' = inner_size'
          /\ redraw_requests' = redraw_requests + 1
          /\ redraw_pending'
          /\ IF ZeroSize(inner_size'[1])
             THEN ConfiguredSize' = ConfiguredSize /\ UniformSize' = UniformSize
             ELSE ConfiguredSize' = inner_size'[1] /\ UniformSize' = inner_size'[1]]_vars

C13_Witness ==
    /\ event = "resized" /\ animating /\ state # None
    /\ inner_size = Some(<<0, 0>>) /\ last_resize = Some(<<0, 0>>)
    /\ armed_size = Some(<<1024, 768>>) /\ ConfiguredSize = <<1024, 768>>
    /\ redraw_pending

\* C14: the configured surface width and height are both at least 1.
C14_ConfiguredSizeAtLeastOne ==
    state # None => state[1].config.width >= 1 /\ state[1].config.height >= 1

C14_Witness ==
    /\ state # None /\ ConfiguredSize = <<1, 600>>
    /\ last_resize # None /\ ZeroSize(last_resize[1])

\* C15: when render returns Lost or Outdated while Animating, the handler
\* calls resize once, with the configured width and height; the configured
\* size, the uniform size and the frame index written by render stay as they
\* are; a redraw is requested, animating stays true and exit is not requested.
C15_LostOrOutdatedReconfigures ==
    [][(Handles("redraw-requested") /\ Animating
            /\ outcome' \in {"Lost", "Outdated"}) =>
          /\ calls' = <<"render", "resize", "request_redraw">>
          /\ resize_calls' = resize_calls + 1
          /\ last_resize' = Some(ConfiguredSize)
          /\ configures' = configures + 1
          /\ ConfiguredSize' = ConfiguredSize
          /\ UniformSize' = UniformSize
          /\ FrameIndex' = render_wrote'[1].frame
          /\ FrameIndex' = U32Plus(FrameIndex, 1)
          /\ redraw_requests' = redraw_requests + 1
          /\ redraw_pending'
          /\ animating'
          /\ exit_calls' = exit_calls]_vars

C15_Witness ==
    /\ event = "redraw-requested" /\ outcome = "Outdated" /\ animating
    /\ last_resize = Some(<<1024, 768>>) /\ resize_calls = 2
    /\ ConfiguredSize = <<1024, 768>>

\* C16: when render returns Timeout or an unclassified error, the handler
\* calls neither resize nor exit, requests no redraw, and leaves animating,
\* the frame tally, the throughput timestamp and the configured size alone.
C16_TimeoutTakesNoAction ==
    [][(Handles("redraw-requested") /\ state # None
            /\ outcome' \in {"Timeout", "Other"}) =>
          /\ calls' = <<"render">>
          /\ resize_calls' = resize_calls
          /\ exit_calls' = exit_calls
          /\ poll_calls' = poll_calls
          /\ redraw_requests' = redraw_requests
          /\ animating' = animating
          /\ fps_frames' = fps_frames
          /\ fps_last' = fps_last
          /\ ConfiguredSize' = ConfiguredSize]_vars

C16_Witness ==
    /\ event = "redraw-requested" /\ outcome = "Timeout" /\ animating
    /\ calls = <<"render">> /\ fps_frames = 1 /\ ~redraw_pending

\* C17: a successful render handled while animating requests exactly one
\* further redraw; and when the host delivers every requested redraw, each
\* render call that returned Ok, Lost or Outdated while Animating (and the
\* activation itself) is followed by another render call (the count of
\* render calls, which grows by one per call, changes parity), until
\* close-requested or OutOfMemory stops the Controller (or the run's event
\* budget ends).
C17_SelfSustainingLoop ==
    /\ [][(Handles("redraw-requested") /\ Animating /\ outcome' = "Ok") =>
             /\ redraw_requests' = redraw_requests + 1
             /\ redraw_pending']_vars
    /\ \A parity \in {0, 1} :
          (Animating /\ outcome \in {"None", "Ok", "Lost", "Outdated"}
                /\ render_calls % 2 = parity)
             ~> (render_calls % 2 # parity \/ ~Animating
                    \/ events >= MaxEvents)

C17_Witness ==
    /\ animating /\ state # None /\ outcome = "Ok"
    /\ render_calls = 3 /\ presented = 2 /\ resize_calls = 1
    /\ redraw_requests = 5 /\ redraw_pending

\* what handling can-render-now from Inactive establishes
ActivatedFromInactive ==
    (Handles("can-render-now") /\ Inactive) =>
        /\ Animating' /\ state' # None /\ animating'
        /\ FrameIndex' = U32Zero /\ state'[1].frame = U32Zero
        /\ fps_frames' = 0 /\ fps_last' = Some(now')
        /\ ConfiguredSize' = <<Max(inner_size'[1][1], 1),
                               Max(inner_size'[1][2], 1)>>
        /\ (inner_size' = Some(<<800, 600>>) => ConfiguredSize' = <<800, 600>>)
        /\ redraw_pending' /\ redraw_requests' > redraw_requests

\* C18 as stated: activation from Inactive gives Animating, a Session with
\* frame_index 0, tally 0, timestamp now, the floored window size and a
\* requested redraw; and the first successful render leaves frame_index = 1
\* and requests another redraw.
C18_FirstSuccessLeavesOne ==
    [][/\ ActivatedFromInactive
       /\ (Handles("redraw-requested") /\ Animating /\ presented = 0
             /\ outcome' = "Ok") =>
             /\ FrameIndex' = [hi |-> 0, lo |-> 1]
             /\ redraw_pending' /\ redraw_requests' = redraw_requests + 1]_vars

\* C18 amended: the same activation postcondition; the first render call, when
\* it succeeds, leaves frame_index = 1, and in general the first successful
\* render leaves frame_index = the number of render calls made so far (the
\* failed ones included); either way it requests another redraw.
C18_ActivationThenFirstFrame ==
    [][/\ ActivatedFromInactive
       /\ (Handles("redraw-requested") /\ Animating /\ render_calls = 0
             /\ outcome' = "Ok") =>
             FrameIndex' = [hi |-> 0, lo |-> 1]
       /\ (Handles("redraw-requested") /\ Animating /\ presented = 0
             /\ outcome' = "Ok") =>
             /\ FrameIndex' = [hi |-> 0, lo |-> render_calls']
             /\ render_calls' = failed + 1
             /\ redraw_pending' /\ redraw_requests' = redraw_requests + 1]_vars

C18_Witness ==
    /\ Animating /\ inner_size = Some(<<800, 600>>)
    /\ ConfiguredSize = <<800, 600>> /\ resize_calls = 0
    /\ render_calls = 1 /\ presented = 1 /\ outcome = "Ok"
    /\ FrameIndex = [hi |-> 0, lo |-> 1]
    /\ redraw_pending /\ redraw_requests = 3

\* C19: Session creation is invoked at most once in the Controller's life, and
\* an existing Session is never replaced: its frame index changes only in a
\* render call and its configured size only in a resize call.
C19_SessionCreatedOnce ==
    [][/\ creations' <= 1
       /\ state # None =>
             /\ state' # None
             /\ state'[1].frame # state[1].frame => RenderStep
             /\ ConfiguredSize' # ConfiguredSize => ResizeStep]_vars

\* C20: the frame tally grows only in a successful render, by one; a
\* throughput sample is emitted only in a successful render at which at least
\* one second has passed since the throughput timestamp; the sampled tally is
\* the number of successful renders since the previous sample (or since
\* activation); emitting a sample resets the tally to 0 and the timestamp to
\* now; a failed render changes neither the tally nor the timestamp nor the
\* samples.
C20_ThroughputSampling ==
    [][/\ fps_frames' > fps_frames =>
             /\ RenderStep /\ outcome' = "Ok"
             /\ fps_frames' = fps_frames + 1
       /\ (RenderStep /\ outcome' = "Ok" /\ samples' = samples) =>
             fps_frames' = fps_frames + 1 /\ fps_last' = fps_last
       /\ samples' # samples =>
             /\ RenderStep /\ outcome' = "Ok"
             /\ samples' = samples + 1
             /\ fps_last # None /\ now - fps_last[1] >= TicksPerSecond
             /\ last_sample'[1].dt = now - fps_last[1]
             /\ last_sample'[1].tally = fps_frames + 1
             /\ last_sample'[1].tally =
                   presented' - (IF last_sample = None THEN 0
                                 ELSE last_sample[1].presented)
             /\ fps_frames' = 0 /\ fps_last' = Some(now')
       /\ (RenderStep /\ outcome' # "Ok") =>
             /\ fps_frames' = fps_frames /\ fps_last' = fps_last
             /\ samples' = samples /\ last_sample' = last_sample]_vars

C20_Witness ==
    /\ samples = 2 /\ outcome = "Ok" /\ failed > 0
    /\ last_sample[1].tally = 2 /\ presented = 3
    /\ fps_frames = 0 /\ fps_last = Some(now)

\* C21: resize is idempotent for non-zero sizes: from any reachable Session,
\* resize(w, h) applied twice gives the same Session (configured size, uniform
\* size, frame index, frame counter) as applied once, and resize with the
\* already-configured size changes none of them; so a resized event that
\* carries the size already configured leaves the Session as it was.
C21_ResizeIdempotent ==
    /\ [](state # None =>
            LET s == state[1]
            IN  /\ \A a \in ResizeArgs :
                      resize(resize(s, a[1], a[2]), a[1], a[2])
                         = resize(s, a[1], a[2])
                /\ resize(s, s.config.width, s.config.height) = s)
    /\ [][(Handles("resized") /\ state # None
             /\ inner_size'[1] = ConfiguredSize) =>
             /\ ResizeStep
             /\ state' = state]_vars

C21_Witness ==
    /\ event = "resized" /\ state # None
    /\ resize_calls = 2 /\ configures = 3 /\ render_calls = 1
    /\ inner_size = Some(<<1024, 768>>) /\ ConfiguredSize = <<1024, 768>>
    /\ UniformSize = <<1024, 768>> /\ FrameIndex = [hi |-> 0, lo |-> 1]

\* C22: while the Controller is Inactive, handling resized or
\* redraw-requested makes no Session call and no request_redraw and leaves
\* animating false; handling close-requested requests host exit once, without
\* a device drain and without creating a Session.
C22_InactiveEventsAreNoOps ==
    [][/\ (Inactive /\ (Handles("resized") \/ Handles("redraw-requested"))) =>
             /\ calls' = <<>>
             /\ state' = None /\ ~animating /\ ~animating'
             /\ render_calls' = render_calls /\ resize_calls' = resize_calls
             /\ configures' = configures /\ creations' = creations
             /\ redraw_requests' = redraw_requests /\ ~redraw_pending'
             /\ exit_calls' = exit_calls /\ poll_calls' = poll_calls
             /\ exiting' = exiting
             /\ fps_frames' = fps_frames /\ fps_last' = fps_last
       /\ (Inactive /\ Handles("close-requested")) =>
             /\ calls' = <<"exit">>
             /\ exit_calls' = exit_calls + 1 /\ exiting'
             /\ poll_calls' = poll_calls
             /\ state' = None /\ creations' = creations
             /\ ~animating'
             /\ render_calls' = render_calls /\ resize_calls' = resize_calls
             /\ redraw_requests' = redraw_requests]_vars

C22_Witness ==
    /\ Inactive /\ ~resumed_done /\ ~animating
    /\ events = 3 /\ event = "close-requested"
    /\ calls = <<"exit">> /\ exit_calls = 1 /\ poll_calls = 0
    /\ creations = 0 /\ inner_size # None /\ ~redraw_pending

====
